---- MODULE Spec2Model ----
(***************************************************************************)
(* The upload handler (api/videos.rs, upload_video), the ingestion         *)
(* (services/video_processor.rs, handle_upload) and the background run it  *)
(* spawns (process_video) of the vid-storage service, as a state machine.  *)
(*                                                                         *)
(* Every await of the code is one action.  The outcome of each call into   *)
(* the environment (the record store, the filesystem, ffmpeg, ffprobe,     *)
(* the connection pool) is drawn with \E from the results the call can     *)
(* return.  The handler and the task it spawns run concurrently from the   *)
(* tokio::spawn on.                                                        *)
(***************************************************************************)
EXTENDS Integers, Sequences, FiniteSets, TLC

\* ffprobe reports a duration in 1..MaxDuration (seconds).
MaxDuration == 2

\* The uploaded video part carries 0..MaxBytes bytes.
MaxBytes == 1

\* The upload requests of a behaviour; each gets its own Uuid::new_v4().
\* A request shares no variable with another one: every row, file and
\* local below is keyed by the request's video id.
Videos == {"v1"}

Durations == 1..MaxDuration

\* The upload requests in flight at once when the pool and the paths are
\* looked at.
NumRequests == 2

\* The pool's max_size: the connections it hands out before get() waits.
PoolSize == 2

Requests == 1..NumRequests

\* Two of the values Uuid::new_v4() can give, enough for two requests to
\* get the same one or different ones; 0 stands for "not drawn yet".
Uuids == {1, 2}

\* Option<T>: None is <<>>, Some(x) is <<x>>.
None == <<>>
Some(x) == <<x>>

---------------------------------------------------------------------------
(* video_processor.rs: constants and pure functions *)

\* const QUALITIES: the ladder, in order.  A bitrate is kept as its
\* characters, so that parse_bitrate has something to parse.
QUALITIES ==
  << [quality |-> "1080p", bitrate |-> <<"5", "0", "0", "0", "k">>],
     [quality |-> "720p",  bitrate |-> <<"2", "8", "0", "0", "k">>],
     [quality |-> "480p",  bitrate |-> <<"1", "4", "0", "0", "k">>],
     [quality |-> "360p",  bitrate |-> <<"8", "0", "0", "k">>] >>

Ladder == 1..Len(QUALITIES)

DigitValue ==
  [c \in {"0", "1", "2", "3", "4", "5", "6", "7", "8", "9"} |->
     CASE c = "0" -> 0 [] c = "1" -> 1 [] c = "2" -> 2 [] c = "3" -> 3
       [] c = "4" -> 4 [] c = "5" -> 5 [] c = "6" -> 6 [] c = "7" -> 7
       [] c = "8" -> 8 [] c = "9" -> 9]

\* str::trim_end_matches('k'): drops every trailing 'k'.
RECURSIVE TrimEndMatchesK(_)
TrimEndMatchesK(s) ==
  IF Len(s) > 0 /\ s[Len(s)] = "k"
    THEN TrimEndMatchesK(SubSeq(s, 1, Len(s) - 1))
    ELSE s

\* str::parse::<u32>: Some(n) for a non-empty run of decimal digits, None
\* (an Err) otherwise.  The ladder's numbers have at most four digits, so
\* the Err of a number that does not fit 32 bits is not reached.
RECURSIVE DecimalValue(_)
DecimalValue(s) ==
  IF Len(s) = 0 THEN 0
  ELSE 10 * DecimalValue(SubSeq(s, 1, Len(s) - 1)) + DigitValue[s[Len(s)]]

ParseU32(s) ==
  IF Len(s) = 0 \/ \E i \in 1..Len(s) : s[i] \notin DOMAIN DigitValue
    THEN None
    ELSE Some(DecimalValue(s))

\* Mutant: parse_bitrate forgets the conversion to bits per second.
parse_bitrate_NoScale(bitrate) ==
  ParseU32(TrimEndMatchesK(bitrate))

\* fn parse_bitrate: Some(bits per second), or None for the Err.  num * 1000
\* stays below 2^32 for the ladder's bitrates (at most 5000).
parse_bitrate(bitrate) ==
  LET num == ParseU32(TrimEndMatchesK(bitrate))
  IN  IF num = None THEN None ELSE Some(num[1] * 1000)

\* fn get_resolution.
get_resolution(quality) ==
  CASE quality = "1080p" -> "1920x1080"
    [] quality = "720p"  -> "1280x720"
    [] quality = "480p"  -> "854x480"
    [] quality = "360p"  -> "640x360"
    [] OTHER             -> "640x360"

\* transcode_to_hls, lines 190-196: the resolution match; None is the
\* "Invalid quality" Err, returned before ffmpeg is started.
TranscodeResolution(quality) ==
  CASE quality = "1080p" -> Some("1920x1080")
    [] quality = "720p"  -> Some("1280x720")
    [] quality = "480p"  -> Some("854x480")
    [] quality = "360p"  -> Some("640x360")
    [] OTHER             -> None

\* A line of the master playlist.
Line(kind, bandwidth, resolution, text) ==
  [kind |-> kind, bandwidth |-> bandwidth, resolution |-> resolution,
   text |-> text]

\* String::from("#EXTM3U\n#EXT-X-VERSION:3\n")
PlaylistHeader ==
  << Line("header", 0, "", "#EXTM3U"), Line("header", 0, "", "#EXT-X-VERSION:3") >>

\* master_playlist.push_str(format!("#EXT-X-STREAM-INF:BANDWIDTH={},
\* RESOLUTION={}\n{}/stream.m3u8\n", bandwidth, resolution, quality)).
\* The uri line keeps the quality; "/stream.m3u8" is the same on each.
PushStreamInf(playlist, bandwidth, resolution, quality) ==
  playlist \o
  << Line("stream-inf", bandwidth, resolution, "#EXT-X-STREAM-INF"),
     Line("uri", 0, "", quality) >>

\* The VideoQuality value of lines 115-122 (id and created_at left out).
QualityRow(v, q) ==
  [video_id |-> v, resolution |-> q.quality, bitrate |-> q.bitrate,
   file_path |-> <<"hls", q.quality, "stream.m3u8">>]

---------------------------------------------------------------------------
VARIABLES
  \* upload_video / handle_upload, per request
  hpc,          \* where the handler is
  video_file,   \* Option of the byte count of the video part
  hprobe,       \* result of the probe in handle_upload: "none", "ok", "err"
  hdur,         \* Option: the duration that probe returned
  response,     \* what the requester got: "none", or the outcome
  hresult,      \* what handle_upload returned: "none", "ok", or the error
  body,         \* Option: the status in the record a 200 response carries
  \* the record store
  status,       \* videos.status; "absent" while the row does not exist
  duration,     \* videos.duration, an Option
  qualities,    \* the video_qualities table, in insertion order
  created_at,   \* videos.created_at, an Option
  updated_at,   \* videos.updated_at, an Option
  clock,        \* the time the next reading of the clock gives
  \* the filesystem under uploads/{id}/
  original,     \* original.mp4: "absent", "open", "written", "synced"
  original_bytes, \* the number of bytes in original.mp4
  master_file,  \* Option: the content of hls/master.m3u8
  thumbnails,   \* whether the thumbnails were generated
  \* the spawned task, per video
  bpc,          \* where the task is
  k,            \* the ladder entry the loop is at
  outcome,      \* per ladder entry: "none", "ok", "failed"
  master_playlist, \* the accumulator of process_video
  bdur,         \* Option: the duration the probe at line 156 returned
  berr,         \* which step made process_video return Err; "none"
  ffmpeg_args,  \* Option: the arguments of the last transcode's ffmpeg
  \* several requests at once, with the pool and the paths only
  req,          \* where the handler of each request is
  run,          \* where the task of each request is
  run_k,        \* the ladder entry the task of each request is at
  uuid,         \* the id of each request; 0 before Uuid::new_v4()
  idle_conns,   \* the connections the pool can still hand out
  written       \* the <<request, path>> pairs written so far

hvars == <<hpc, video_file, hprobe, hdur, response, hresult, body>>
tsvars == <<created_at, updated_at, clock>>
dbvars == <<status, duration, qualities, created_at, updated_at, clock>>
fsvars == <<original, original_bytes, master_file, thumbnails>>
cvars == <<req, run, run_k, uuid, idle_conns, written>>
bvars == <<bpc, k, outcome, master_playlist, bdur, berr, ffmpeg_args>>
vars == <<hpc, video_file, hprobe, hdur, response, hresult, body, status,
          duration, qualities, created_at, updated_at, clock, original,
          original_bytes, master_file, thumbnails, bpc, k, outcome,
          master_playlist, bdur, berr, ffmpeg_args, req, run, run_k, uuid,
          idle_conns,
          written>>

Init ==
  /\ hpc = [v \in Videos |-> "idle"]
  /\ video_file = [v \in Videos |-> None]
  /\ hprobe = [v \in Videos |-> "none"]
  /\ hdur = [v \in Videos |-> None]
  /\ response = [v \in Videos |-> "none"]
  /\ hresult = [v \in Videos |-> "none"]
  /\ body = [v \in Videos |-> None]
  /\ status = [v \in Videos |-> "absent"]
  /\ duration = [v \in Videos |-> None]
  /\ qualities = <<>>
  /\ created_at = [v \in Videos |-> None]
  /\ updated_at = [v \in Videos |-> None]
  /\ clock = 1
  /\ original = [v \in Videos |-> "absent"]
  /\ original_bytes = [v \in Videos |-> 0]
  /\ master_file = [v \in Videos |-> None]
  /\ thumbnails = [v \in Videos |-> FALSE]
  /\ bpc = [v \in Videos |-> "none"]
  /\ k = [v \in Videos |-> 1]
  /\ outcome = [v \in Videos |-> [i \in Ladder |-> "none"]]
  /\ master_playlist = [v \in Videos |-> <<>>]
  /\ bdur = [v \in Videos |-> None]
  /\ berr = [v \in Videos |-> "none"]
  /\ ffmpeg_args = [v \in Videos |-> None]
  /\ req = [r \in Requests |-> "idle"]
  /\ run = [r \in Requests |-> "none"]
  /\ run_k = [r \in Requests |-> 1]
  /\ uuid = [r \in Requests |-> 0]
  /\ idle_conns = PoolSize
  /\ written = {}

---------------------------------------------------------------------------
(* The record store: an update either is applied or returns Err. *)

\* Mutant: the update clears the duration.
SetDuration_Null(v, d) ==
  [duration EXCEPT ![v] = None]

\* Mutant: the update leaves the row as it was and still reports Ok.
SetDuration_Lost(v, d) ==
  duration

\* .set(videos::duration.eq(d)) on the row of v.
SetDuration(v, d) ==
  [duration EXCEPT ![v] = Some(d)]

\* The value chrono::Utc::now() gives.
Now ==
  clock

\* Mutant: an update leaves updated_at as it was.
TouchUpdatedAt_Never(v) ==
  updated_at

\* The store stamps updated_at of a row it updates with the time of the
\* update.
TouchUpdatedAt(v) ==
  [updated_at EXCEPT ![v] = Some(Now)]

\* The record upload_video builds and, at the end, returns as JSON.
VideoStruct(v) ==
  [id |-> v, status |-> "uploading", duration |-> None]

\* .set(videos::status.eq(s)) on the row of v.
SetStatus(v, s) ==
  [status EXCEPT ![v] = s]

---------------------------------------------------------------------------
(* api/videos.rs, upload_video *)

\* Lines 46-47: a fresh id and a pooled connection; expect() panics when
\* the pool gives none.
UploadStart(v) ==
  /\ hpc[v] = "idle"
  /\ \E got \in BOOLEAN :
       hpc' = [hpc EXCEPT ![v] = IF got THEN "read" ELSE "panicked"]
  /\ UNCHANGED <<video_file, hprobe, hdur, response, dbvars, fsvars, bvars, hresult, body, cvars>>

\* What the multipart loop of lines 55-96 can leave in video_file: None when
\* the request has no "video" field, Some(n) for a video field of n bytes
\* (n = 0 for a field without content: video_data stays Vec::new()).
VideoParts == {None} \cup {Some(n) : n \in 0..MaxBytes}

\* Mutant: the handler goes on without looking whether a video was sent.
MissingVideo_Never(file) ==
  FALSE

\* Lines 98-99: video_file.ok_or_else(ErrorBadRequest(..))? returns when no
\* video part was read.
MissingVideo(file) ==
  file = None

\* Lines 55-99: the multipart loop and the check for a video part.  A field
\* without a name or a video field without a filename is a bad request too.
ReadPayload(v) ==
  /\ hpc[v] = "read"
  /\ \/ \E part \in VideoParts :
          /\ video_file' = [video_file EXCEPT ![v] = part]
          /\ IF MissingVideo(part)
               THEN /\ hpc' = [hpc EXCEPT ![v] = "returned"]
                    /\ response' = [response EXCEPT ![v] = "bad_request"]
               ELSE /\ hpc' = [hpc EXCEPT ![v] = "insert"]
                    /\ UNCHANGED response
     \/ /\ hpc' = [hpc EXCEPT ![v] = "returned"]
        /\ response' = [response EXCEPT ![v] = "bad_request"]
        /\ UNCHANGED video_file
  /\ UNCHANGED <<hprobe, hdur, dbvars, fsvars, bvars, hresult, body, cvars>>

\* Lines 101-115: the row is inserted with status "uploading" and no
\* duration; an Err of the insert is answered with "Database error".
InsertVideo(v) ==
  /\ hpc[v] = "insert"
  /\ \/ /\ status' = SetStatus(v, VideoStruct(v).status)
        /\ created_at' = [created_at EXCEPT ![v] = Some(Now)]
        /\ updated_at' = [updated_at EXCEPT ![v] = Some(Now)]
        /\ clock' = clock + 1
        /\ hpc' = [hpc EXCEPT ![v] = "create_dir"]
        /\ UNCHANGED response
     \/ /\ hpc' = [hpc EXCEPT ![v] = "returned"]
        /\ response' = [response EXCEPT ![v] = "internal_error"]
        /\ UNCHANGED <<status, tsvars>>
  /\ UNCHANGED <<video_file, hprobe, hdur, hresult, body, duration, qualities,
                 fsvars, bvars, cvars>>

---------------------------------------------------------------------------
(* services/video_processor.rs, handle_upload: each map_err(..)? returns  *)
(* Err to upload_video, which then takes its Err arm (line 126).          *)

\* Lines 29-33: create_dir_all(uploads/{id}).
\* Mutant: a storage error is logged and the ingestion goes on to the spawn.
OnStorageError_Continue ==
  "spawn"

\* Where the handler goes when a storage call of handle_upload fails: the
\* map_err(..)? returns Err to upload_video, whose Err arm is at line 126.
OnStorageError ==
  "write_failed"

StorageError(v) ==
  /\ hpc' = [hpc EXCEPT ![v] = OnStorageError]
  /\ hresult' = [hresult EXCEPT ![v] = "storage_error"]

\* Mutant: the probe is started as soon as write_all returned.
AfterWrite_NoSync ==
  "probe"

\* Line 53: after write_all comes file.sync_all().
AfterWrite ==
  "sync"

CreateUploadDir(v) ==
  /\ hpc[v] = "create_dir"
  /\ \/ /\ hpc' = [hpc EXCEPT ![v] = "open"]
        /\ UNCHANGED hresult
     \/ StorageError(v)
  /\ UNCHANGED <<video_file, hprobe, hdur, response, body, dbvars, fsvars,
                 bvars, cvars>>

\* Lines 35-46: original.mp4 is created (and truncated).
OpenOriginal(v) ==
  /\ hpc[v] = "open"
  /\ \/ /\ original' = [original EXCEPT ![v] = "open"]
        /\ original_bytes' = [original_bytes EXCEPT ![v] = 0]
        /\ hpc' = [hpc EXCEPT ![v] = "write"]
        /\ UNCHANGED hresult
     \/ /\ StorageError(v)
        /\ UNCHANGED <<original, original_bytes>>
  /\ UNCHANGED <<video_file, hprobe, hdur, response, body, dbvars, master_file,
                 thumbnails, bvars, cvars>>

\* Lines 48-51: write_all(&video_data).
WriteOriginal(v) ==
  /\ hpc[v] = "write"
  /\ \/ /\ original' = [original EXCEPT ![v] = "written"]
        /\ original_bytes' = [original_bytes EXCEPT ![v] = video_file[v][1]]
        /\ hpc' = [hpc EXCEPT ![v] = AfterWrite]
        /\ UNCHANGED hresult
     \/ /\ StorageError(v)
        /\ UNCHANGED <<original, original_bytes>>
  /\ UNCHANGED <<video_file, hprobe, hdur, response, body, dbvars, master_file,
                 thumbnails, bvars, cvars>>

\* Lines 53-56: sync_all().
SyncOriginal(v) ==
  /\ hpc[v] = "sync"
  /\ \/ /\ original' = [original EXCEPT ![v] = "synced"]
        /\ hpc' = [hpc EXCEPT ![v] = "probe"]
        /\ UNCHANGED hresult
     \/ /\ StorageError(v)
        /\ UNCHANGED original
  /\ UNCHANGED <<video_file, hprobe, hdur, response, body, dbvars,
                 original_bytes, master_file, thumbnails, bvars, cvars>>

\* Line 59: get_video_duration(original.mp4).  An Err (ffprobe not started,
\* output not JSON, no duration field) skips the update: `if let Ok`.
ProbeOriginal(v) ==
  /\ hpc[v] = "probe"
  /\ \/ \E d \in Durations :
          /\ hprobe' = [hprobe EXCEPT ![v] = "ok"]
          /\ hdur' = [hdur EXCEPT ![v] = Some(d)]
          /\ hpc' = [hpc EXCEPT ![v] = "update_duration"]
     \/ /\ hprobe' = [hprobe EXCEPT ![v] = "err"]
        /\ hpc' = [hpc EXCEPT ![v] = "spawn"]
        /\ UNCHANGED hdur
  /\ UNCHANGED <<video_file, response, dbvars, fsvars, bvars, hresult, body, cvars>>

\* Lines 60-69: a second connection (expect() panics without one) and the
\* duration update; its Err is returned with `?`, before the spawn.
UpdateDuration(v) ==
  /\ hpc[v] = "update_duration"
  /\ \/ /\ duration' = SetDuration(v, hdur[v][1])
        /\ updated_at' = TouchUpdatedAt(v)
        /\ clock' = clock + 1
        /\ hpc' = [hpc EXCEPT ![v] = "spawn"]
        /\ UNCHANGED hresult
     \/ /\ hpc' = [hpc EXCEPT ![v] = "write_failed"]
        /\ hresult' = [hresult EXCEPT ![v] = "database_error"]
        /\ UNCHANGED <<duration, updated_at, clock>>
     \/ /\ hpc' = [hpc EXCEPT ![v] = "panicked"]
        /\ UNCHANGED <<duration, updated_at, clock, hresult>>
  /\ UNCHANGED <<video_file, hprobe, hdur, response, body, status, qualities,
                 created_at, fsvars, bvars, cvars>>

\* Lines 75-92: tokio::spawn of the task, then Ok(()).
SpawnRun(v) ==
  /\ hpc[v] = "spawn"
  /\ bpc[v] = "none"
  /\ bpc' = [bpc EXCEPT ![v] = "get_conn"]
  /\ hresult' = [hresult EXCEPT ![v] = "ok"]
  /\ hpc' = [hpc EXCEPT ![v] = "write_processing"]
  /\ UNCHANGED <<video_file, hprobe, hdur, response, body, dbvars, fsvars, k,
                 outcome, master_playlist, bdur, berr, cvars,
                 ffmpeg_args>>

---------------------------------------------------------------------------
(* api/videos.rs, upload_video, lines 117-138 *)

\* Ok arm, lines 119-124 and 138: status "processing", then the response
\* with the record as it was built at line 101.  An Err of the update is
\* answered with "Database error".
\* Mutant: the handler awaits the task before it answers.
WriteProcessing_AwaitsRun(v) ==
  /\ hpc[v] = "write_processing"
  /\ bpc[v] \in {"done", "panicked"}
  /\ status' = SetStatus(v, "processing")
  /\ updated_at' = TouchUpdatedAt(v)
  /\ clock' = clock + 1
  /\ response' = [response EXCEPT ![v] = "ok"]
  /\ body' = [body EXCEPT ![v] = Some(VideoStruct(v).status)]
  /\ hpc' = [hpc EXCEPT ![v] = "returned"]
  /\ UNCHANGED <<video_file, hprobe, hdur, hresult, duration, qualities,
                 created_at, fsvars, bvars, cvars>>

WriteProcessing(v) ==
  /\ hpc[v] = "write_processing"
  /\ \/ /\ status' = SetStatus(v, "processing")
        /\ updated_at' = TouchUpdatedAt(v)
        /\ clock' = clock + 1
        /\ response' = [response EXCEPT ![v] = "ok"]
        /\ body' = [body EXCEPT ![v] = Some(VideoStruct(v).status)]
     \/ /\ response' = [response EXCEPT ![v] = "internal_error"]
        /\ UNCHANGED <<status, updated_at, clock, body>>
  /\ hpc' = [hpc EXCEPT ![v] = "returned"]
  /\ UNCHANGED <<video_file, hprobe, hdur, hresult, duration, qualities,
                 created_at, fsvars, bvars, cvars>>

\* Err arm, lines 126-135: status "failed", then the Err of handle_upload
\* is returned ("upload_error"), or "Database error" when the update fails
\* too.
WriteFailed(v) ==
  /\ hpc[v] = "write_failed"
  /\ \/ /\ status' = SetStatus(v, "failed")
        /\ updated_at' = TouchUpdatedAt(v)
        /\ clock' = clock + 1
        /\ response' = [response EXCEPT ![v] = "upload_error"]
     \/ /\ response' = [response EXCEPT ![v] = "internal_error"]
        /\ UNCHANGED <<status, updated_at, clock>>
  /\ hpc' = [hpc EXCEPT ![v] = "returned"]
  /\ UNCHANGED <<video_file, hprobe, hdur, hresult, body, duration, qualities,
                 created_at, fsvars, bvars, cvars>>

---------------------------------------------------------------------------
(* services/video_processor.rs: the task spawned at line 75 *)

\* Line 76: the task's own pooled connection; expect() panics without one,
\* which ends the task.
RunGetConn(v) ==
  /\ bpc[v] = "get_conn"
  /\ \E got \in BOOLEAN :
       bpc' = [bpc EXCEPT ![v] = IF got THEN "create_hls_dir" ELSE "panicked"]
  /\ UNCHANGED <<hvars, dbvars, fsvars, k, outcome, master_playlist, bdur, berr, cvars,
                 ffmpeg_args>>

\* process_video, lines 98-103: create_dir_all(hls)?, then the accumulator
\* starts as the header.
CreateHlsDir(v) ==
  /\ bpc[v] = "create_hls_dir"
  /\ \/ /\ master_playlist' = [master_playlist EXCEPT ![v] = PlaylistHeader]
        /\ bpc' = [bpc EXCEPT ![v] = "transcode"]
        /\ UNCHANGED berr
     \/ /\ berr' = [berr EXCEPT ![v] = "hls_dir"]
        /\ bpc' = [bpc EXCEPT ![v] = "set_failed"]
        /\ UNCHANGED master_playlist
  /\ UNCHANGED <<hvars, dbvars, fsvars, k, outcome, bdur, cvars,
                 ffmpeg_args>>

\* Mutant: the loop takes the same entry again.
NextEntry_Repeat(v) ==
  /\ k' = k
  /\ bpc' = [bpc EXCEPT ![v] = "transcode"]

\* Mutant: the loop is left after its first turn.
NextEntry_LeavesEarly(v) ==
  /\ k' = [k EXCEPT ![v] = @ + 1]
  /\ bpc' = [bpc EXCEPT ![v] = "probe"]

\* The loop of line 106 moves to the next entry, or leaves for line 151.
NextEntry(v) ==
  /\ k' = [k EXCEPT ![v] = @ + 1]
  /\ bpc' = [bpc EXCEPT ![v] = IF k[v] < Len(QUALITIES) THEN "transcode"
                                                      ELSE "probe"]

\* transcode_to_hls: Ok when ffmpeg exits with success; Err when the
\* quality is unknown, when ffmpeg cannot be started or when it exits
\* otherwise.
TranscodeResults(quality) ==
  IF TranscodeResolution(quality) = None THEN {"failed"} ELSE {"ok", "failed"}

\* Line 16: the length of an HLS segment, in seconds.
CHUNK_DURATION == 6

\* Mutant: the keyframe interval is the segment duration itself.
FfmpegArgs_IntervalIsSegment(segment_duration) ==
  [segment_duration |-> segment_duration,
   g |-> segment_duration,
   keyint_min |-> segment_duration,
   hls_time |-> segment_duration]

\* transcode_to_hls, lines 213-220: .arg("-g").arg("48"),
\* .arg("-keyint_min").arg("48") and
\* .arg("-hls_time").arg(segment_duration.to_string()), as the numbers
\* ffmpeg reads from them.
FfmpegArgs(segment_duration) ==
  [segment_duration |-> segment_duration,
   g |-> DecimalValue(<<"4", "8">>),
   keyint_min |-> DecimalValue(<<"4", "8">>),
   hls_time |-> segment_duration]

\* Mutant: the row is stored for an entry whatever its transcode returned.
StoresRow_Always(result) ==
  TRUE

\* Line 112: only the Ok arm of the match stores a row and a playlist entry.
StoresRow(result) ==
  result = "ok"

\* Lines 107-112 and 143-147, for entry k: create_dir_all(quality_dir)?
\* returns Err from process_video; then the transcode, whose Err arm
\* continues the loop.
Transcode(v) ==
  /\ bpc[v] = "transcode"
  /\ \/ /\ berr' = [berr EXCEPT ![v] = "quality_dir"]
        /\ bpc' = [bpc EXCEPT ![v] = "set_failed"]
        /\ UNCHANGED <<k, outcome, ffmpeg_args>>
     \/ \E result \in TranscodeResults(QUALITIES[k[v]].quality) :
          /\ ffmpeg_args' = [ffmpeg_args EXCEPT ![v] =
                                Some(FfmpegArgs(CHUNK_DURATION))]
          /\ outcome' = [outcome EXCEPT ![v][k[v]] = result]
          /\ IF StoresRow(result)
               THEN /\ bpc' = [bpc EXCEPT ![v] = "store_quality"]
                    /\ UNCHANGED k
               ELSE NextEntry(v)
          /\ UNCHANGED berr
  /\ UNCHANGED <<hvars, dbvars, fsvars, master_playlist, bdur, cvars>>

\* Lines 113-142, the Ok arm for entry k: the VideoQuality insert (its Err
\* is logged and nothing else), then the entry is pushed on the accumulator;
\* parse_bitrate(..)? returns Err from process_video.
StoreQuality(v) ==
  /\ bpc[v] = "store_quality"
  /\ LET q == QUALITIES[k[v]]
         bandwidth == parse_bitrate(q.bitrate)
     IN  /\ \/ qualities' = Append(qualities, QualityRow(v, q))
            \/ UNCHANGED qualities
         /\ IF bandwidth = None
              THEN /\ berr' = [berr EXCEPT ![v] = "bitrate"]
                   /\ bpc' = [bpc EXCEPT ![v] = "set_failed"]
                   /\ UNCHANGED <<k, master_playlist>>
              ELSE /\ master_playlist' =
                        [master_playlist EXCEPT ![v] =
                           PushStreamInf(@, bandwidth[1],
                                         get_resolution(q.quality), q.quality)]
                   /\ NextEntry(v)
                   /\ UNCHANGED berr
  /\ UNCHANGED <<hvars, status, duration, fsvars, outcome, bdur, tsvars, cvars,
                 ffmpeg_args>>

\* Lines 151-158: get_video_duration(..).expect(..): an Err of the probe
\* panics, which ends the task where it is.
ProbeAfterLadder(v) ==
  /\ bpc[v] = "probe"
  /\ \/ \E d \in Durations :
          /\ bdur' = [bdur EXCEPT ![v] = Some(d)]
          /\ bpc' = [bpc EXCEPT ![v] = "set_processed"]
     \/ /\ bpc' = [bpc EXCEPT ![v] = "panicked"]
        /\ UNCHANGED bdur
  /\ UNCHANGED <<hvars, dbvars, fsvars, k, outcome, master_playlist, berr, cvars,
                 ffmpeg_args>>

\* Lines 159-172: one update sets status "processed" and the duration; its
\* Err is logged and the run goes on.
SetProcessed(v) ==
  /\ bpc[v] = "set_processed"
  /\ \/ /\ status' = SetStatus(v, "processed")
        /\ duration' = SetDuration(v, bdur[v][1])
        /\ updated_at' = TouchUpdatedAt(v)
        /\ clock' = clock + 1
     \/ UNCHANGED <<status, duration, updated_at, clock>>
  /\ bpc' = [bpc EXCEPT ![v] = "write_master"]
  /\ UNCHANGED <<hvars, qualities, created_at, fsvars, k, outcome,
                 master_playlist, bdur, berr, cvars,
                 ffmpeg_args>>

\* Line 175: fs::write(hls/master.m3u8, master_playlist)?
WriteMaster(v) ==
  /\ bpc[v] = "write_master"
  /\ \/ /\ master_file' = [master_file EXCEPT ![v] = Some(master_playlist[v])]
        /\ bpc' = [bpc EXCEPT ![v] = "thumbnails"]
        /\ UNCHANGED berr
     \/ /\ berr' = [berr EXCEPT ![v] = "master"]
        /\ bpc' = [bpc EXCEPT ![v] = "set_failed"]
        /\ UNCHANGED master_file
  /\ UNCHANGED <<hvars, dbvars, original, thumbnails, k, outcome,
                 master_playlist, bdur, original_bytes, cvars,
                 ffmpeg_args>>

\* Line 178 and generate_thumbnails: Err when the directory cannot be
\* made, ffmpeg cannot be started or exits without success; then Ok(()).
GenerateThumbnails(v) ==
  /\ bpc[v] = "thumbnails"
  /\ \/ /\ thumbnails' = [thumbnails EXCEPT ![v] = TRUE]
        /\ bpc' = [bpc EXCEPT ![v] = "done"]
        /\ UNCHANGED berr
     \/ /\ berr' = [berr EXCEPT ![v] = "thumbnails"]
        /\ bpc' = [bpc EXCEPT ![v] = "set_failed"]
        /\ UNCHANGED thumbnails
  /\ UNCHANGED <<hvars, dbvars, original, master_file, k, outcome,
                 master_playlist, bdur, original_bytes, cvars,
                 ffmpeg_args>>

\* handle_upload, lines 77-89: any Err of process_video is logged and the
\* status is set to "failed"; an Err of that update is logged.
SetFailed(v) ==
  /\ bpc[v] = "set_failed"
  /\ \/ /\ status' = SetStatus(v, "failed")
        /\ updated_at' = TouchUpdatedAt(v)
        /\ clock' = clock + 1
     \/ UNCHANGED <<status, updated_at, clock>>
  /\ bpc' = [bpc EXCEPT ![v] = "done"]
  /\ UNCHANGED <<hvars, duration, qualities, created_at, fsvars, k, outcome,
                 master_playlist, bdur, berr, cvars,
                 ffmpeg_args>>

---------------------------------------------------------------------------
Next ==
  \E v \in Videos :
    \/ UploadStart(v)
    \/ ReadPayload(v)
    \/ InsertVideo(v)
    \/ CreateUploadDir(v)
    \/ OpenOriginal(v)
    \/ WriteOriginal(v)
    \/ SyncOriginal(v)
    \/ ProbeOriginal(v)
    \/ UpdateDuration(v)
    \/ SpawnRun(v)
    \/ WriteProcessing(v)
    \/ WriteFailed(v)
    \/ RunGetConn(v)
    \/ CreateHlsDir(v)
    \/ Transcode(v)
    \/ StoreQuality(v)
    \/ ProbeAfterLadder(v)
    \/ SetProcessed(v)
    \/ WriteMaster(v)
    \/ GenerateThumbnails(v)
    \/ SetFailed(v)

Spec == Init /\ [][Next]_vars

---------------------------------------------------------------------------
(* Several uploads at once: what each one holds of the pool and which paths
   it writes.  The rows and the contents of the files are left to Spec. *)

mvars == <<hvars, dbvars, fsvars, bvars>>

\* Mutant: every video is stored in the same directory.
get_video_dir_Shared(v_id) ==
  <<"uploads", 0>>

\* Lines 265-267: PathBuf::from("uploads").join(v_id.to_string()).
get_video_dir(v_id) ==
  <<"uploads", v_id>>

\* PathBuf::join with a relative name.
Join(path, name) ==
  Append(path, name)

Writes(r, paths) ==
  written' = written \cup {<<r, p>> : p \in paths}

\* Line 46: the id is drawn before anything else.
NewRequest(r) ==
  /\ req[r] = "idle"
  /\ \E id \in Uuids : uuid' = [uuid EXCEPT ![r] = id]
  /\ req' = [req EXCEPT ![r] = "get_conn"]
  /\ UNCHANGED <<run, run_k, idle_conns, written, mvars>>

\* Line 47 of upload_video: the handler's connection, kept until it returns.
\* get() waits while the pool has handed out all its connections.
HandlerGetConn(r) ==
  /\ req[r] = "get_conn"
  /\ idle_conns > 0
  /\ idle_conns' = idle_conns - 1
  /\ req' = [req EXCEPT ![r] = "create_dir"]
  /\ UNCHANGED <<run, run_k, uuid, written, mvars>>

\* Lines 49-115 and 29-33: the request ends before ingestion (no video part,
\* or the insert failed), or the upload directory is created, or creating it
\* fails.
HandlerCreateDir(r) ==
  /\ req[r] = "create_dir"
  /\ \/ /\ Writes(r, {get_video_dir(uuid[r])})
        /\ req' = [req EXCEPT ![r] = "write_original"]
     \/ /\ req' = [req EXCEPT ![r] = "finish"]
        /\ UNCHANGED written
  /\ UNCHANGED <<run, run_k, uuid, idle_conns, mvars>>

\* Lines 35-56: original.mp4 is created, written and synced, or one of the
\* three fails.
HandlerWriteOriginal(r) ==
  /\ req[r] = "write_original"
  /\ \/ /\ Writes(r, {Join(get_video_dir(uuid[r]), "original.mp4")})
        /\ req' \in {[req EXCEPT ![r] = "probe"], [req EXCEPT ![r] = "finish"]}
     \/ /\ req' = [req EXCEPT ![r] = "finish"]
        /\ UNCHANGED written
  /\ UNCHANGED <<run, run_k, uuid, idle_conns, mvars>>

\* Line 59: only a successful probe asks for a second connection.
HandlerProbe(r) ==
  /\ req[r] = "probe"
  /\ req' \in {[req EXCEPT ![r] = "get_conn2"], [req EXCEPT ![r] = "spawn"]}
  /\ UNCHANGED <<run, run_k, uuid, idle_conns, written, mvars>>

\* Line 60: handle_upload asks the pool for a connection of its own while
\* upload_video still holds the handler's.
HandlerGetSecondConn(r) ==
  /\ req[r] = "get_conn2"
  /\ idle_conns > 0
  /\ idle_conns' = idle_conns - 1
  /\ req' = [req EXCEPT ![r] = "update_duration"]
  /\ UNCHANGED <<run, run_k, uuid, written, mvars>>

\* Lines 61-70: the update runs, the block ends and the second connection
\* goes back to the pool; an Err leaves handle_upload.
HandlerUpdateDuration(r) ==
  /\ req[r] = "update_duration"
  /\ idle_conns' = idle_conns + 1
  /\ req' \in {[req EXCEPT ![r] = "spawn"], [req EXCEPT ![r] = "finish"]}
  /\ UNCHANGED <<run, run_k, uuid, written, mvars>>

\* Lines 75-92.
HandlerSpawn(r) ==
  /\ req[r] = "spawn"
  /\ run' = [run EXCEPT ![r] = "get_conn"]
  /\ req' = [req EXCEPT ![r] = "finish"]
  /\ UNCHANGED <<run_k, uuid, idle_conns, written, mvars>>

\* upload_video lines 117-138: the status is written, the handler returns
\* and its connection goes back to the pool.
HandlerReturn(r) ==
  /\ req[r] = "finish"
  /\ idle_conns' = idle_conns + 1
  /\ req' = [req EXCEPT ![r] = "returned"]
  /\ UNCHANGED <<run, run_k, uuid, written, mvars>>

\* Line 76: the task's connection, kept until the task ends.
TaskGetConn(r) ==
  /\ run[r] = "get_conn"
  /\ idle_conns > 0
  /\ idle_conns' = idle_conns - 1
  /\ run' = [run EXCEPT ![r] = "hls_dir"]
  /\ UNCHANGED <<req, run_k, uuid, written, mvars>>

\* Lines 99-101.
TaskCreateHlsDir(r) ==
  /\ run[r] = "hls_dir"
  /\ \/ /\ Writes(r, {Join(get_video_dir(uuid[r]), "hls")})
        /\ run' = [run EXCEPT ![r] = "ladder"]
     \/ /\ run' = [run EXCEPT ![r] = "end"]
        /\ UNCHANGED written
  /\ UNCHANGED <<req, run_k, uuid, idle_conns, mvars>>

\* The paths one ladder entry writes: its directory (line 108) and, through
\* ffmpeg, the playlist and the segments (lines 109, 226-227).  ffmpeg makes
\* its files as it goes, so an attempt that fails is taken to have written
\* them as well.
QualityDir(r, i) ==
  Join(Join(get_video_dir(uuid[r]), "hls"), QUALITIES[i].quality)

EntryPaths(r, i) ==
  {QualityDir(r, i), Join(QualityDir(r, i), "stream.m3u8"),
   Join(QualityDir(r, i), "segment_%03d.ts")}

\* Lines 106-158: one turn of the loop, or create_dir_all(quality_dir) fails
\* and the task ends; after the last turn the probe, whose failure ends the
\* task.
TaskLadderEntry(r) ==
  /\ run[r] = "ladder"
  /\ \/ /\ Writes(r, EntryPaths(r, run_k[r]))
        /\ IF run_k[r] < Len(QUALITIES)
             THEN /\ run_k' = [run_k EXCEPT ![r] = @ + 1]
                  /\ UNCHANGED run
             ELSE /\ run' \in {[run EXCEPT ![r] = "master"],
                               [run EXCEPT ![r] = "end"]}
                  /\ UNCHANGED run_k
     \/ /\ run' = [run EXCEPT ![r] = "end"]
        /\ UNCHANGED <<run_k, written>>
  /\ UNCHANGED <<req, uuid, idle_conns, mvars>>

\* Line 175.
TaskWriteMaster(r) ==
  /\ run[r] = "master"
  /\ \/ /\ Writes(r, {Join(Join(get_video_dir(uuid[r]), "hls"), "master.m3u8")})
        /\ run' = [run EXCEPT ![r] = "thumbnails"]
     \/ /\ run' = [run EXCEPT ![r] = "end"]
        /\ UNCHANGED written
  /\ UNCHANGED <<req, run_k, uuid, idle_conns, mvars>>

\* Lines 178, 238-263: the directory, then ffmpeg's thumb_%d.jpg, or
\* creating the directory fails.
ThumbnailsDir(r) ==
  Join(get_video_dir(uuid[r]), "thumbnails")

TaskThumbnails(r) ==
  /\ run[r] = "thumbnails"
  /\ \/ Writes(r, {ThumbnailsDir(r), Join(ThumbnailsDir(r), "thumb_%d.jpg")})
     \/ UNCHANGED written
  /\ run' = [run EXCEPT ![r] = "end"]
  /\ UNCHANGED <<req, run_k, uuid, idle_conns, mvars>>

\* Lines 77-90: the task ends, by return or by panic, and its connection
\* goes back to the pool.
TaskEnd(r) ==
  /\ run[r] = "end"
  /\ idle_conns' = idle_conns + 1
  /\ run' = [run EXCEPT ![r] = "done"]
  /\ UNCHANGED <<req, run_k, uuid, written, mvars>>

ConcNext ==
  \E r \in Requests :
    \/ NewRequest(r)
    \/ HandlerGetConn(r)
    \/ HandlerCreateDir(r)
    \/ HandlerWriteOriginal(r)
    \/ HandlerProbe(r)
    \/ HandlerGetSecondConn(r)
    \/ HandlerUpdateDuration(r)
    \/ HandlerSpawn(r)
    \/ HandlerReturn(r)
    \/ TaskGetConn(r)
    \/ TaskCreateHlsDir(r)
    \/ TaskLadderEntry(r)
    \/ TaskWriteMaster(r)
    \/ TaskThumbnails(r)
    \/ TaskEnd(r)

ConcSpec == Init /\ [][ConcNext]_vars

---------------------------------------------------------------------------
(* Properties *)

Terminal == {"processed", "failed"}

\* The task spawned for v has ended: it returned or it panicked.
RunOver(v) == bpc[v] \in {"done", "panicked"}

\* The upload request of v has ended.
RequestOver(v) == hpc[v] \in {"returned", "panicked"}

\* C1: once the persisted status of a video is `processed` or `failed`, no
\* later write of the handler or of the background run changes it.
C1_TerminalStatusIsFinal ==
  [][\A v \in Videos :
       status[v] \in Terminal => status'[v] = status[v]]_vars

\* C2: the handler and the spawned run are never both about to write the
\* status of the same video.
C2_OneStatusWriter ==
  \A v \in Videos :
    ~(hpc[v] = "write_processing" /\ bpc[v] \in {"set_processed", "set_failed"})

\* C3: after generate_thumbnails has returned an error, a video whose status
\* is `processed` keeps that status (the request itself being over).
C3_ThumbnailFailureKeepsStatus ==
  [][\A v \in Videos :
       (berr[v] = "thumbnails" /\ status[v] = "processed" /\ RequestOver(v))
         => status'[v] = "processed"]_vars

\* C4: whenever a reader sees status `processed`, hls/master.m3u8 of that
\* video has been written.
C4_MasterWrittenBeforeProcessed ==
  \A v \in Videos : status[v] = "processed" => master_file[v] # None

\* C5: a run whose every ladder entry failed has set a terminal status by
\* the time it ends, and the requester got no error of the run (its
\* response, if any, is the success or the handler's own database error).
C5_AllFailedReachesTerminal ==
  \A v \in Videos :
    (RunOver(v) /\ \A i \in Ladder : outcome[v][i] = "failed")
      => /\ status[v] \in Terminal
         /\ response[v] \in {"none", "ok", "internal_error"}

\* A step before the ladder failed: the probe of handle_upload, or the
\* creation of the HLS directory.
PreLadderError(v) ==
  bpc[v] # "none" /\ (hprobe[v] = "err" \/ berr[v] = "hls_dir")

\* C6: after an error of a step before the ladder, no ladder entry is
\* attempted, and the status is `failed` once the run has returned and the
\* request is over.
C6_PreLadderErrorFails ==
  \A v \in Videos :
    PreLadderError(v)
      => /\ \A i \in Ladder : outcome[v][i] = "none"
         /\ (bpc[v] = "done" /\ RequestOver(v)) => status[v] = "failed"

\* The run got to the write of the master playlist (line 175).
MasterWriteReached(v) == master_file[v] # None \/ berr[v] = "master"

\* C7: when the run is over, every entry after a failed one was attempted
\* and the run got to the write of the master playlist.
C7_FailureDoesNotAbort ==
  \A v \in Videos : \A i \in Ladder :
    (RunOver(v) /\ outcome[v][i] = "failed")
      => /\ \A j \in Ladder : j > i => outcome[v][j] # "none"
         /\ MasterWriteReached(v)

\* The ladder positions whose quality is q.
PositionsOf(q) == {i \in Ladder : QUALITIES[i].quality = q}

\* The qualities the lines of a playlist name.
QualitiesListed(playlist) ==
  {playlist[n].text : n \in {m \in 1..Len(playlist) : playlist[m].kind = "uri"}}

\* C8: a VideoQuality row (video, resolution) exists only if the transcode
\* of that resolution succeeded in that video's run; an entry whose
\* transcode failed has no row and no entry in the master playlist.
C8_RowOnlyAfterSuccess ==
  /\ \A n \in 1..Len(qualities) :
       \E i \in PositionsOf(qualities[n].resolution) :
         outcome[qualities[n].video_id][i] = "ok"
  /\ \A v \in Videos : \A i \in Ladder :
       outcome[v][i] = "failed"
         => /\ \A n \in 1..Len(qualities) :
                 ~(qualities[n].video_id = v
                   /\ qualities[n].resolution = QUALITIES[i].quality)
            /\ QUALITIES[i].quality \notin QualitiesListed(master_playlist[v])
            /\ master_file[v] # None =>
                 QUALITIES[i].quality \notin QualitiesListed(master_file[v][1])

\* C8 witness: a finished run with a failed entry, a successful one and the
\* row of the successful one.
C8_Witness ==
  \E v \in Videos :
    /\ bpc[v] = "done" /\ master_file[v] # None
    /\ outcome[v][1] = "failed" /\ outcome[v][2] = "ok"
    /\ \E n \in 1..Len(qualities) :
         qualities[n].video_id = v /\ qualities[n].resolution = "720p"

\* The bandwidth the master playlist is to give per quality.
C9_Bandwidth ==
  << [quality |-> "1080p", bandwidth |-> 5000000],
     [quality |-> "720p",  bandwidth |-> 2800000],
     [quality |-> "480p",  bandwidth |-> 1400000],
     [quality |-> "360p",  bandwidth |-> 800000] >>

\* The ladder positions of v that succeeded, in ladder order.
C9_Succeeded(v) ==
  SelectSeq(<<1, 2, 3, 4>>, LAMBDA i : outcome[v][i] = "ok")

\* C9: the written master playlist is the header and then, for the entries
\* that succeeded and no other, in ladder order, one #EXT-X-STREAM-INF line
\* with BANDWIDTH = bitrate * 1000 followed by <quality>/stream.m3u8.
C9_MasterPlaylistContent ==
  \A v \in Videos :
    master_file[v] # None =>
      LET file == master_file[v][1]
          ok == C9_Succeeded(v)
      IN  /\ Len(file) = 2 + 2 * Len(ok)
          /\ file[1].text = "#EXTM3U"
          /\ \A n \in 1..Len(ok) :
               /\ file[2 * n + 1].kind = "stream-inf"
               /\ file[2 * n + 1].bandwidth = C9_Bandwidth[ok[n]].bandwidth
               /\ file[2 * n + 2].kind = "uri"
               /\ file[2 * n + 2].text = C9_Bandwidth[ok[n]].quality

\* C9 witness: a master playlist written for a run in which 1080p and 480p
\* succeeded and 720p and 360p failed.
C9_Witness ==
  \E v \in Videos :
    /\ master_file[v] # None
    /\ outcome[v] = <<"ok", "failed", "ok", "failed">>

\* C10: when the probe of the original succeeds, the duration is on the
\* record before any ladder entry is attempted, and a duration that is set
\* stays set, whatever the transcodes, the thumbnail step and the status do.
C10_DurationPersistedEarly ==
  /\ [](\A v \in Videos :
          (hprobe[v] = "ok" /\ \E i \in Ladder : outcome[v][i] # "none")
            => duration[v] # None)
  /\ [][\A v \in Videos : duration[v] # None => duration'[v] # None]_vars

\* C10 witness: a run that ended with status `failed` after the thumbnail
\* step failed, every transcode having failed, with the duration still set.
C10_Witness ==
  \E v \in Videos :
    /\ hprobe[v] = "ok" /\ bpc[v] = "done" /\ berr[v] = "thumbnails"
    /\ status[v] = "failed"
    /\ \A i \in Ladder : outcome[v][i] = "failed"
    /\ duration[v] # None

\* C11: a request without a video part never gets a Video row, a file or a
\* run, and once the handler has returned its answer is the bad request.
C11_NoVideoPartIsBadRequest ==
  \A v \in Videos :
    (hpc[v] \notin {"idle", "read"} /\ video_file[v] = None)
      => /\ status[v] = "absent"
         /\ original[v] = "absent"
         /\ bpc[v] = "none"
         /\ hpc[v] = "returned" => response[v] = "bad_request"

\* C11 witness: the handler has returned for a request without a video part.
C11_Witness ==
  \E v \in Videos :
    hpc[v] = "returned" /\ video_file[v] = None /\ response[v] = "bad_request"

\* C12: a video part of zero bytes is rejected like a missing one: no row,
\* no run, and no success response.
C12_ZeroBytesRejected ==
  \A v \in Videos :
    video_file[v] = Some(0)
      => /\ status[v] = "absent"
         /\ bpc[v] = "none"
         /\ response[v] # "ok"

\* C13: when handle_upload returns a storage error (creating the directory,
\* opening, writing or syncing original.mp4 failed), no run is dispatched for
\* the video - no ladder attempt, no master playlist, no thumbnails - and the
\* response the requester gets is an error.
C13_StorageErrorAbortsBeforeDispatch ==
  \A v \in Videos :
    hresult[v] = "storage_error"
      => /\ bpc[v] = "none"
         /\ \A i \in Ladder : outcome[v][i] = "none"
         /\ master_file[v] = None
         /\ ~thumbnails[v]
         /\ hpc[v] \in {"write_failed", "returned"}
         /\ hpc[v] = "returned"
              => response[v] \in {"upload_error", "internal_error"}

C13_Witness ==
  \E v \in Videos :
    /\ hresult[v] = "storage_error"
    /\ original[v] = "written"
    /\ hpc[v] = "returned"
    /\ response[v] = "upload_error"

\* C14: a probe, a transcode or a thumbnail generation reads original.mp4
\* only when all the bytes received are in the file and its sync succeeded.
ConsumerStarted(v) ==
  \/ hpc[v] \in {"probe", "update_duration", "spawn", "write_processing"}
  \/ hprobe[v] # "none"
  \/ bpc[v] # "none"
  \/ \E i \in Ladder : outcome[v][i] # "none"
  \/ thumbnails[v]

C14_SyncedBeforeRead ==
  \A v \in Videos :
    ConsumerStarted(v)
      => /\ original[v] = "synced"
         /\ original_bytes[v] = video_file[v][1]

C14_Witness ==
  \E v \in Videos :
    /\ original[v] = "synced"
    /\ original_bytes[v] = MaxBytes
    /\ hprobe[v] = "ok"
    /\ thumbnails[v]

\* C15: the success response carries the record with status uploading, and
\* the handler's last step never waits for the run: it can be taken, and the
\* response given, wherever the run is, before any ladder attempt as well.
C15_ResponseDoesNotWaitForRun ==
  \A v \in Videos :
    /\ hpc[v] = "write_processing" => ENABLED WriteProcessing(v)
    /\ response[v] = "ok" => body[v] = Some("uploading")

C15_Witness ==
  \E v \in Videos :
    /\ response[v] = "ok"
    /\ body[v] = Some("uploading")
    /\ bpc[v] = "get_conn"
    /\ \A i \in Ladder : outcome[v][i] = "none"

\* videos.rs lines 211-267: the record read.  The query filters on the id
\* and on status = "processed"; when no row matches, the requester gets the
\* error "Failed to load video data" (None here).
video_details(v) ==
  IF status[v] = "processed"
    THEN Some([id |-> v, status |-> status[v], duration |-> duration[v]])
    ELSE None

\* C16: for a video whose row exists, video_details returns the record with
\* its current status, whether processing, processed or failed.
C16_DetailsShowEveryOutcome ==
  \A v \in Videos :
    status[v] \in {"processing", "processed", "failed"}
      => /\ video_details(v) # None
         /\ video_details(v)[1].status = status[v]

\* C17: once a row is inserted its created_at never changes, and every
\* update of its status or duration that the store applies leaves its
\* updated_at strictly later than it was.
RowUpdated(v) ==
  /\ status[v] # "absent"
  /\ \/ status'[v] # status[v]
     \/ duration'[v] # duration[v]
     \/ clock' # clock

PathsOf(r) ==
  {w[2] : w \in {x \in written : x[1] = r}}

C18_DisjointNamespaces ==
  /\ \A r \in Requests : \A p \in PathsOf(r) :
       Len(p) >= 2 /\ p[1] = "uploads" /\ p[2] = uuid[r]
  /\ \A r1, r2 \in Requests :
       (uuid[r1] # 0 /\ uuid[r2] # 0 /\ uuid[r1] # uuid[r2])
         => PathsOf(r1) \cap PathsOf(r2) = {}

C18_Witness ==
  \E r1, r2 \in Requests :
    /\ uuid[r1] # uuid[r2]
    /\ run[r1] = "thumbnails" /\ run[r2] = "ladder" /\ run_k[r2] = 3
    /\ <<"uploads", uuid[r1], "hls", "master.m3u8">> \in PathsOf(r1)
    /\ <<"uploads", uuid[r2], "hls", "720p", "stream.m3u8">> \in PathsOf(r2)

\* C19: no state is reachable in which every connection of the pool is held
\* by a task that is itself waiting for another connection.
HandlerHoldsConn(r) ==
  req[r] \in {"create_dir", "write_original", "probe", "get_conn2",
              "update_duration", "spawn", "finish"}

TaskHoldsConn(r) ==
  run[r] \in {"hls_dir", "ladder", "master", "thumbnails", "end"}

C19_NoPoolDeadlock ==
  ~ /\ idle_conns = 0
    /\ \A r \in Requests :
         /\ HandlerHoldsConn(r) => req[r] = "get_conn2"
         /\ ~TaskHoldsConn(r)

\* C20: the ladder is gone through one entry at a time in the order 1080p,
\* 720p, 480p, 360p: the attempt for an entry ends only when those of all the
\* entries before it have ended and none after it has begun, and the master
\* playlist write and the thumbnail generation come after the attempt for
\* the last entry has ended.
LadderOrder ==
  <<"1080p", "720p", "480p", "360p">>

AfterLadder(v) ==
  \/ bpc[v] \in {"probe", "set_processed", "write_master", "thumbnails"}
  \/ master_file[v] # None
  \/ thumbnails[v]

C20_LadderSequential ==
  /\ [](\A v \in Videos :
          /\ \A i \in Ladder : QUALITIES[i].quality = LadderOrder[i]
          /\ AfterLadder(v) => \A i \in Ladder : outcome[v][i] # "none")
  /\ [][\A v \in Videos : \A i \in Ladder :
          outcome'[v][i] # outcome[v][i]
            => /\ k[v] = i
               /\ outcome[v][i] = "none"
               /\ \A j \in Ladder : j < i => outcome[v][j] # "none"
               /\ \A j \in Ladder : j > i => outcome'[v][j] = "none"
               /\ ~AfterLadder(v)]_vars

C20_Witness ==
  \E v \in Videos :
    /\ thumbnails[v]
    /\ master_file[v] # None
    /\ outcome[v] = <<"ok", "failed", "ok", "failed">>

\* C21: a run whose ladder loop has completed, with any of the 16
\* combinations of results of the four entries, goes on to the update that
\* sets the status processed.
LadderCompleted(v) ==
  /\ \A i \in Ladder : outcome[v][i] # "none"
  /\ bpc[v] \notin {"transcode", "store_quality", "probe"}

C21_ProcessedAfterAnyLadder ==
  \A v \in Videos :
    LadderCompleted(v)
      => bpc[v] \in {"set_processed", "write_master", "thumbnails",
                     "set_failed", "done"}

\* C22: when a run has written the master playlist and is over, the
\* resolutions the master playlist lists are those that have a VideoQuality
\* row of the video.
RowResolutions(v) ==
  {qualities[n].resolution :
     n \in {m \in 1..Len(qualities) : qualities[m].video_id = v}}

C22_PlaylistMatchesRows ==
  \A v \in Videos :
    (master_file[v] # None /\ bpc[v] = "done")
      => QualitiesListed(master_file[v][1]) = RowResolutions(v)

\* C23: a video whose status is processed has a duration on its record.
C23_ProcessedHasDuration ==
  \A v \in Videos :
    status[v] = "processed" => duration[v] # None

C23_Witness ==
  \E v \in Videos :
    /\ status[v] = "processed"
    /\ hprobe[v] = "err"
    /\ duration[v] = Some(MaxDuration)
    /\ bpc[v] = "done"

\* C24: an accepted upload has its one Video row, inserted once, and at most
\* one run is dispatched for its id, so the video has at most one
\* VideoQuality row for each resolution and at most four in all.
RowsOf(v) ==
  {n \in 1..Len(qualities) : qualities[n].video_id = v}

C24_OneRowOneRun ==
  /\ [](\A v \in Videos :
          /\ response[v] = "ok" => status[v] # "absent"
          /\ \A n, m \in RowsOf(v) :
               qualities[n].resolution = qualities[m].resolution => n = m
          /\ Cardinality(RowsOf(v)) <= 4)
  /\ [][\A v \in Videos :
          /\ status[v] # "absent"
               => status'[v] # "absent" /\ created_at'[v] = created_at[v]
          /\ bpc[v] # "none" => bpc'[v] # "none"
          /\ (bpc'[v] = "get_conn" /\ bpc[v] # "get_conn")
               => bpc[v] = "none" /\ hpc[v] = "spawn"]_vars

C24_Witness ==
  \E v \in Videos :
    /\ response[v] = "ok"
    /\ bpc[v] = "done"
    /\ Cardinality(RowsOf(v)) = 4

\* C25: in every call of the transcode, with segment duration d, the -g and
\* -keyint_min arguments given to the encoder are 8 * d and the -hls_time
\* argument is d.
C25_KeyframeInterval ==
  \A v \in Videos :
    ffmpeg_args[v] # None
      => LET a == ffmpeg_args[v][1]
         IN  /\ a.g = 8 * a.segment_duration
             /\ a.keyint_min = 8 * a.segment_duration
             /\ a.hls_time = a.segment_duration

C25_Witness ==
  \E v \in Videos :
    /\ ffmpeg_args[v] # None
    /\ ffmpeg_args[v][1].segment_duration = CHUNK_DURATION
    /\ k[v] = 3
    /\ outcome[v][1] = "ok" /\ outcome[v][2] = "failed"

====
